---- MODULE Spec2Model ----
(***************************************************************************)
(* Model of the indicator scoring and backtesting engine of                *)
(* stock-dashboard: the two composite scorers (backtest.py                 *)
(* calculate_indicators, stock_fetcher.py StockDataFetcher.get_stock_data),*)
(* the live monitor's daily signal (app.py get_live_monitor_data), the     *)
(* position simulator and evaluator (backtest.py backtest_strategy) and    *)
(* the threshold grid search (backtest.py run_backtest_grid).              *)
(*                                                                         *)
(* Numbers are integers.  A percentage the code computes as a float        *)
(* quotient is kept exact as a fraction [num, den] (see Pct).              *)
(***************************************************************************)
EXTENDS Integers, Sequences, FiniteSets, TLC

VARIABLES
    df,               \* the frame handed to the operation under study (sequence of rows)
    st_empty,         \* ta.supertrend returned None / an empty frame
    \* ---- backtest_strategy ----
    buy_threshold, sell_threshold, initial_capital,
    pc,               \* position of the running operation
    rows,             \* backtest_strategy's local df after dropna()
    i,                \* number of bars the loop has processed
    capital, shares, position, buy_price, trades,
    result,           \* return value of backtest_strategy
    \* ---- scorers and live monitor ----
    bt_df,            \* return value of calculate_indicators
    result_df,        \* return value of get_stock_data
    daily_signals,    \* get_live_monitor_data: daily_signals[ticker]
    \* ---- run_backtest_grid ----
    gpc,              \* position of run_backtest_grid ("none": not running)
    buy_thresh, sell_thresh, results, grid_out,
    \* ---- backtest.py main ----
    mpc,              \* position of main ("none": not running)
    ticker_idx,       \* number of tickers the loop of main has finished
    all_results,      \* main: all_results, a dictionary ticker -> results_df
    \* ---- app.py ----
    current_interval, stock_data_cache, TICKERS,     \* the module's globals
    threads,          \* per thread: the handler it runs, its position and its locals
    requests          \* number of handler runs started (requests and updater rounds)

vars == <<df, st_empty, buy_threshold, sell_threshold, initial_capital, pc, rows, i,
          capital, shares, position, buy_price, trades, result,
          bt_df, result_df, daily_signals,
          gpc, buy_thresh, sell_thresh, results, grid_out,
          mpc, ticker_idx, all_results,
          current_interval, stock_data_cache, TICKERS, threads, requests>>

mainVars == <<mpc, ticker_idx, all_results>>
appVars == <<current_interval, stock_data_cache, TICKERS, threads, requests>>

(* main is not running; the dashboard application is not loaded *)
NoMain == mpc = "none" /\ ticker_idx = 0 /\ all_results = <<>>
NoApp ==
    /\ current_interval = "" /\ stock_data_cache = <<>> /\ TICKERS = <<>>
    /\ threads = <<>> /\ requests = 0

----------------------------------------------------------------------------
(* Bounds of the model *)
PatLen   == 2    \* length of the repeated pattern of bars in a backtest series
MaxLead  == 1    \* leading warm-up rows (undefined indicators) in a series
MaxExtra == 1    \* rows of a series beyond the minimum viable count

(* Program constants *)
MinRows        == 30          \* backtest_strategy: len(df) < 30
DefaultCapital == 10000000    \* backtest_strategy: initial_capital=10000000
LiveBars       == 5           \* get_live_monitor_data: bars=5

----------------------------------------------------------------------------
(* Missing values.  NaN stands for numpy/pandas not-a-number; every        *)
(* ordered comparison and every equality with NaN is False in numpy.       *)
NaN == -9999
Inf == 9998                    \* float infinity: x / 0 for x > 0; -Inf for x < 0
None == [none |-> TRUE]        \* None where a dictionary is expected
NoFrame == <<None>>            \* None where a DataFrame is expected

isna(x) == x = NaN
GT(a, b) == ~isna(a) /\ ~isna(b) /\ a > b
LT(a, b) == ~isna(a) /\ ~isna(b) /\ a < b
GE(a, b) == ~isna(a) /\ ~isna(b) /\ a >= b
LE(a, b) == ~isna(a) /\ ~isna(b) /\ a <= b
EQ(a, b) == ~isna(a) /\ ~isna(b) /\ a = b

(* A float percentage (num / den) * 100, kept exact as a fraction.         *)
Pct(num, den) == [num |-> num * 100, den |-> den]
PctPos_NonNegative(p) == (p.num >= 0 /\ p.den > 0) \/ (p.num <= 0 /\ p.den < 0)

(* t.get('pnl_pct', 0) > 0 *)
PctPos(p) == (p.num > 0 /\ p.den > 0) \/ (p.num < 0 /\ p.den < 0)
PctLeq(p, q) ==                                    \* p <= q, for den > 0
    IF p.den = q.den THEN p.num <= q.num ELSE p.num * q.den <= q.num * p.den
PctSub(p, q) ==
    IF p.den = q.den THEN [num |-> p.num - q.num, den |-> p.den]
    ELSE [num |-> p.num * q.den - q.num * p.den, den |-> p.den * q.den]

RECURSIVE Gcd(_, _)
Gcd(a, b) == IF b = 0 THEN a ELSE Gcd(b, a % b)

PctAdd(p, q) ==                                    \* p + q over the least common denominator
    LET l == (p.den \div Gcd(p.den, q.den)) * q.den
    IN  [num |-> p.num * (l \div p.den) + q.num * (l \div q.den), den |-> l]

(* The sum of ps[first..last], half by half *)
RECURSIVE PctSum(_, _, _)
PctSum(ps, first, last) ==
    IF first = last THEN ps[first]
    ELSE LET mid == (first + last) \div 2
         IN  PctAdd(PctSum(ps, first, mid), PctSum(ps, mid + 1, last))

(* np.mean(list) of a non-empty list of percentages *)
np_mean(ps) ==
    LET total == PctSum(ps, 1, Len(ps))
    IN  [num |-> total.num, den |-> total.den * Len(ps)]

----------------------------------------------------------------------------
(* Raw rows: the columns the indicator library hands to the scorers, with  *)
(* the row's index label (date).                                           *)
RawRow(date, price, ma5, ma10, rsi, dir, vshort, vlong) ==
    [date |-> date, Price |-> price, MA_5 |-> ma5, MA_10 |-> ma10, RSI_Score |-> rsi,
     SuperTrend_Direction |-> dir, vol_short |-> vshort, vol_long |-> vlong]

(* ta.sma(column, length) at row k: the mean of the last length values,    *)
(* undefined before row length or when a value of the window is.  The      *)
(* inputs of the model keep the mean integral.                             *)
RECURSIVE SeqSum(_, _, _)
SeqSum(xs, first, last) ==          \* xs[first] + ... + xs[last], half by half
    IF first > last THEN 0
    ELSE IF first = last THEN xs[first]
    ELSE LET mid == (first + last) \div 2
         IN  SeqSum(xs, first, mid) + SeqSum(xs, mid + 1, last)

sma(col, length, k) ==
    IF k < length THEN NaN
    ELSE LET w == SubSeq(col, k - length + 1, k)
         IN  IF \E j \in 1..length : isna(w[j]) THEN NaN ELSE SeqSum(w, 1, length) \div length

VolOsc_ZeroWhenFlat(vol_short, vol_long) ==
    IF isna(vol_short) \/ isna(vol_long) THEN NaN
    ELSE IF vol_long = 0 THEN 0
    ELSE ((vol_short - vol_long) * 100) \div vol_long

(* Vol_Osc = ((vol_short - vol_long) / vol_long) * 100 on float columns: a *)
(* division by zero does not raise, 0/0 is NaN and x/0 is plus or minus    *)
(* infinity.  The inputs of the model keep the quotient integral.          *)
VolOsc(vol_short, vol_long) ==
    IF isna(vol_short) \/ isna(vol_long) THEN NaN
    ELSE IF vol_long = 0
         THEN (IF vol_short = 0 THEN NaN ELSE IF vol_short > 0 THEN Inf ELSE -Inf)
    ELSE ((vol_short - vol_long) * 100) \div vol_long

vol_osc_result_Strict(row) ==
    IF isna(row.Vol_Osc) \/ isna(row.MA_5) \/ isna(row.MA_10) THEN "N/A"
    ELSE LET price_above_ma == row.Price > row.MA_5 /\ row.Price > row.MA_10
             price_below_ma == row.Price < row.MA_5 /\ row.Price < row.MA_10
         IN  IF price_above_ma /\ row.Vol_Osc > 20 THEN "STRONG"
             ELSE IF price_above_ma /\ row.Vol_Osc < -15 THEN "BEARISH INDICATOR"
             ELSE IF price_below_ma /\ row.Vol_Osc > 20 THEN "ACCUM"
             ELSE IF price_below_ma /\ row.Vol_Osc < -15 THEN "CONFIRM BEARISH"
             ELSE IF row.Vol_Osc > 0 THEN "UP"
             ELSE "DOWN"

(* vol_osc_result / determine_vol_osc_result: the same text in both files  *)
vol_osc_result(row) ==
    IF isna(row.Vol_Osc) \/ isna(row.MA_5) \/ isna(row.MA_10) THEN "N/A"
    ELSE LET price == row.Price
             ma5 == row.MA_5
             ma10 == row.MA_10
             vol_osc == row.Vol_Osc
             price_above_ma == price > ma5 /\ price > ma10
             price_below_ma == price < ma5 /\ price < ma10
         IN  IF price_above_ma /\ vol_osc >= 20 THEN "STRONG"
             ELSE IF price_above_ma /\ vol_osc <= -15 THEN "BEARISH INDICATOR"
             ELSE IF price_below_ma /\ vol_osc >= 20 THEN "ACCUM"
             ELSE IF price_below_ma /\ vol_osc <= -15 THEN "CONFIRM BEARISH"
             ELSE IF vol_osc > 0 THEN "UP"
             ELSE "DOWN"

(* ---- backtest.py calculate_indicators, per row ---- *)
bt_Score_MA5(row) ==
    IF GT(row.Price, row.MA_5) THEN 1 ELSE IF LT(row.Price, row.MA_5) THEN -1 ELSE 0

bt_Score_MA10(row) ==
    IF GT(row.Price, row.MA_10) THEN 1 ELSE IF LT(row.Price, row.MA_10) THEN -1 ELSE 0

bt_Score_RSI_NoCap(row) ==
    IF GE(row.RSI_Score, 50) THEN 1
    ELSE IF GT(row.RSI_Score, 30) /\ LT(row.RSI_Score, 50) THEN 0 ELSE -1

(* np.where((RSI >= 50) & (RSI <= 75), 1, np.where((RSI > 30) & (RSI < 50), 0, -1)) *)
bt_Score_RSI(row) ==
    IF GE(row.RSI_Score, 50) /\ LE(row.RSI_Score, 75) THEN 1
    ELSE IF GT(row.RSI_Score, 30) /\ LT(row.RSI_Score, 50) THEN 0 ELSE -1

bt_Score_SuperTrend(dir) ==
    IF EQ(dir, 1) THEN 1 ELSE IF EQ(dir, -1) THEN -1 ELSE 0

bt_Score_VolOsc(label) ==
    IF label \in {"STRONG", "ACCUM", "UP"} THEN 1
    ELSE IF label \in {"BEARISH INDICATOR", "CONFIRM BEARISH", "DOWN"} THEN -1
    ELSE 0

bt_Indicator_FourScores(s5, s10, srsi, sst, svol) == s5 + s10 + srsi + sst

(* df['Indicator'] = Score_MA5 + Score_MA10 + Score_RSI + Score_SuperTrend + Score_VolOsc *)
bt_Indicator(s5, s10, srsi, sst, svol) == s5 + s10 + srsi + sst + svol

calculate_indicators_row(raw, stEmpty) ==
    LET dir  == IF stEmpty THEN 0 ELSE raw.SuperTrend_Direction
        osc  == VolOsc(raw.vol_short, raw.vol_long)
        base == [Price |-> raw.Price, MA_5 |-> raw.MA_5, MA_10 |-> raw.MA_10,
                 RSI_Score |-> raw.RSI_Score, SuperTrend_Direction |-> dir,
                 Vol_Osc |-> osc]
        lab  == vol_osc_result(base)
        s5   == bt_Score_MA5(base)
        s10  == bt_Score_MA10(base)
        srsi == bt_Score_RSI(base)
        sst  == bt_Score_SuperTrend(dir)
        svol == bt_Score_VolOsc(lab)
    IN  [date |-> raw.date,
         Price |-> raw.Price, MA_5 |-> raw.MA_5, MA_10 |-> raw.MA_10,
         RSI_Score |-> raw.RSI_Score, SuperTrend_Direction |-> dir,
         Vol_Osc |-> osc, Vol_Osc_Result |-> lab,
         Score_MA5 |-> s5, Score_MA10 |-> s10, Score_RSI |-> srsi,
         Score_SuperTrend |-> sst, Score_VolOsc |-> svol,
         Indicator |-> bt_Indicator(s5, s10, srsi, sst, svol)]

calculate_indicators(frame, stEmpty) ==
    [k \in 1..Len(frame) |-> calculate_indicators_row(frame[k], stEmpty)]

----------------------------------------------------------------------------
(* ---- stock_fetcher.py StockDataFetcher.get_stock_data, per row ---- *)
SuperTrend_Color(dir, stEmpty) ==
    IF stEmpty THEN "NEUTRAL"
    ELSE IF EQ(dir, 1) THEN "GREEN" ELSE IF EQ(dir, -1) THEN "RED" ELSE "NEUTRAL"

score_ma5(row) ==
    IF isna(row.MA_5) THEN 0
    ELSE IF row.Price > row.MA_5 THEN 1
    ELSE IF row.Price < row.MA_5 THEN -1
    ELSE 0

score_ma10(row) ==
    IF isna(row.MA_10) THEN 0
    ELSE IF row.Price > row.MA_10 THEN 1
    ELSE IF row.Price < row.MA_10 THEN -1
    ELSE 0

score_rsi(row) ==
    IF isna(row.RSI_Score) THEN 0
    ELSE LET rsi == row.RSI_Score
         IN  IF rsi > 75 THEN -1
             ELSE IF rsi <= 30 THEN -1
             ELSE IF 50 <= rsi /\ rsi <= 75 THEN 1
             ELSE 0

score_supertrend(row) ==
    IF row.SuperTrend_Color = "GREEN" THEN 1
    ELSE IF row.SuperTrend_Color = "RED" THEN -1
    ELSE 0

score_vol_osc(row) ==
    LET res == row.Vol_Osc_Result
    IN  IF res \in {"STRONG", "ACCUM", "UP"} THEN 1
        ELSE IF res \in {"BEARISH INDICATOR", "CONFIRM BEARISH", "DOWN"} THEN -1
        ELSE 0

(* The columns get_stock_data keeps (final_cols, with Date put first).  The *)
(* display string 'SuperTrend' carries the band value, which no score or    *)
(* signal reads; the record below leaves its value out.                     *)
final_cols ==
    {"Price", "MA_5", "MA_10", "RSI_Score", "SuperTrend", "SuperTrend_Color",
     "Vol_Osc", "Vol_Osc_Result",
     "Score_MA5", "Score_MA10", "Score_RSI", "Score_SuperTrend", "Score_VolOsc",
     "Indicator"}

get_stock_data_row(raw, stEmpty) ==
    LET osc  == VolOsc(raw.vol_short, raw.vol_long)
        col  == SuperTrend_Color(raw.SuperTrend_Direction, stEmpty)
        base == [Price |-> raw.Price, MA_5 |-> raw.MA_5, MA_10 |-> raw.MA_10,
                 RSI_Score |-> raw.RSI_Score, SuperTrend_Color |-> col, Vol_Osc |-> osc]
        full == [Price |-> raw.Price, MA_5 |-> raw.MA_5, MA_10 |-> raw.MA_10,
                 RSI_Score |-> raw.RSI_Score, SuperTrend_Color |-> col, Vol_Osc |-> osc,
                 Vol_Osc_Result |-> vol_osc_result(base)]
        s5   == score_ma5(full)
        s10  == score_ma10(full)
        srsi == score_rsi(full)
        sst  == score_supertrend(full)
        svol == score_vol_osc(full)
    IN  [Date |-> raw.date,
         Price |-> raw.Price, MA_5 |-> raw.MA_5, MA_10 |-> raw.MA_10,
         RSI_Score |-> raw.RSI_Score, SuperTrend_Color |-> col,
         Vol_Osc |-> osc, Vol_Osc_Result |-> full.Vol_Osc_Result,
         Score_MA5 |-> s5, Score_MA10 |-> s10, Score_RSI |-> srsi,
         Score_SuperTrend |-> sst, Score_VolOsc |-> svol,
         Indicator |-> s5 + s10 + srsi + sst + svol]

(* DataFrame.tail(n) *)
Tail_n(frame, n) ==
    IF Len(frame) <= n THEN frame ELSE SubSeq(frame, Len(frame) - n + 1, Len(frame))

(* get_stock_data(ticker, bars, interval): None when the download is empty *)
get_stock_data(frame, stEmpty, bars) ==
    IF Len(frame) = 0 THEN NoFrame
    ELSE Tail_n([k \in 1..Len(frame) |-> get_stock_data_row(frame[k], stEmpty)], bars)

(* dict.get(key, default) *)
DictGet(d, key, default) == IF key \in DOMAIN d THEN d[key] ELSE default

(* get_live_monitor_data: the daily_signals entry of one ticker *)
live_daily_signal(daily_df) ==
    IF daily_df # NoFrame /\ Len(daily_df) > 0
    THEN LET latest_daily == daily_df[Len(daily_df)]
         IN  [indicator      |-> DictGet(latest_daily, "Indicator", 0),
              indicator_diff |-> DictGet(latest_daily, "Indicator_Diff", 0),
              price          |-> DictGet(latest_daily, "Price", 0),
              date           |-> DictGet(latest_daily, "Date", 0)]
    ELSE [indicator |-> 0, indicator_diff |-> 0, price |-> 0, date |-> 0,
          error |-> "No daily data"]

----------------------------------------------------------------------------
(* ---- backtest.py backtest_strategy ---- *)

(* Only the float columns can hold NaN: the scores are integers and the    *)
(* labels strings.                                                         *)
FloatCols == {"Price", "MA_5", "MA_10", "RSI_Score", "SuperTrend_Direction", "Vol_Osc"}

RowHasNa(row) == \E c \in (DOMAIN row) \cap FloatCols : isna(row[c])

(* DataFrame.dropna(): drop every row with a missing value in any column;  *)
(* the surviving rows keep their index label.                              *)
dropna(frame) == SelectSeq(frame, LAMBDA row : ~RowHasNa(row))

ValidRows(frame) == Cardinality({k \in 1..Len(frame) : ~RowHasNa(frame[k])})

InitialLocals_Leftover(cap) ==
    [capital |-> cap, shares |-> shares, position |-> position, buy_price |-> buy_price,
     trades |-> trades]

(* The locals of the loop as one record s:                                 *)
(* capital, shares, position, buy_price, trades.                           *)
InitialLocals(cap) ==
    [capital |-> cap, shares |-> 0, position |-> "CASH", buy_price |-> 0, trades |-> <<>>]

(* if position == 'CASH' and indicator >= buy_threshold *)
BuySignal(s, indicator, buy) == s.position = "CASH" /\ indicator >= buy

SellSignal_AnyState(s, indicator, sell) == indicator <= sell

(* elif position == 'HOLDING' and indicator <= sell_threshold *)
SellSignal(s, indicator, sell) == s.position = "HOLDING" /\ indicator <= sell

Buy_Unchecked(s, row) ==
    LET price == row.Price
        n == s.capital \div price
    IN  [capital |-> s.capital - n * price, shares |-> n,
         position |-> "HOLDING", buy_price |-> price,
         trades |-> Append(s.trades,
             [date |-> row.date, action |-> "BUY", price |-> price,
              shares |-> n, indicator |-> row.Indicator])]

(* shares = capital // price; if shares > 0: ... *)
Buy(s, row) ==
    LET price == row.Price
        n == s.capital \div price
    IN  IF n > 0
        THEN [capital |-> s.capital - n * price, shares |-> n,
              position |-> "HOLDING", buy_price |-> price,
              trades |-> Append(s.trades,
                  [date |-> row.date, action |-> "BUY", price |-> price,
                   shares |-> n, indicator |-> row.Indicator])]
        ELSE [s EXCEPT !.shares = n]

Sell_KeepsBuyPrice(s, row) ==
    LET price == row.Price
    IN  [capital |-> s.capital + s.shares * price, shares |-> 0,
         position |-> "CASH", buy_price |-> s.buy_price,
         trades |-> Append(s.trades,
             [date |-> row.date, action |-> "SELL", price |-> price,
              shares |-> s.shares, indicator |-> row.Indicator,
              pnl_pct |-> Pct(price - s.buy_price, s.buy_price)])]

(* capital += shares * price; pnl_pct; shares = 0; position = 'CASH';      *)
(* buy_price = 0                                                           *)
Sell(s, row) ==
    LET price == row.Price
    IN  [capital |-> s.capital + s.shares * price, shares |-> 0,
         position |-> "CASH", buy_price |-> 0,
         trades |-> Append(s.trades,
             [date |-> row.date, action |-> "SELL", price |-> price,
              shares |-> s.shares, indicator |-> row.Indicator,
              pnl_pct |-> Pct(price - s.buy_price, s.buy_price)])]

ProcessBar_TwoIfs(s, row, buy, sell) ==
    LET s1 == IF BuySignal(s, row.Indicator, buy) THEN Buy(s, row) ELSE s
    IN  IF SellSignal(s1, row.Indicator, sell) THEN Sell(s1, row) ELSE s1

(* One iteration of the loop over the bars *)
ProcessBar(s, row, buy, sell) ==
    IF BuySignal(s, row.Indicator, buy) THEN Buy(s, row)
    ELSE IF SellSignal(s, row.Indicator, sell) THEN Sell(s, row)
    ELSE s

(* buy_hold_shares = initial_capital // first price;                       *)
(* buy_hold_value = buy_hold_shares * final_price                          *)
BuyHoldValue(cap, first_price, final_price) ==
    LET buy_hold_shares == cap \div first_price
    IN  buy_hold_shares * final_price

FinalValue_CashOnly(s, final_price) == s.capital

(* final_value = capital + (shares * final_price) *)
FinalValue(s, final_price) == s.capital + s.shares * final_price

(* Final valuation, buy-and-hold comparison, win rate, returned dictionary *)
Evaluate(s, valid, buy, sell, cap) ==
    LET final_price == valid[Len(valid)].Price
        final_value == FinalValue(s, final_price)
        total_return == Pct(final_value - cap, cap)
        buy_hold_value == BuyHoldValue(cap, valid[1].Price, final_price)
        buy_hold_return == Pct(buy_hold_value - cap, cap)
        sell_trades == SelectSeq(s.trades, LAMBDA t : t.action = "SELL")
        winning_trades == SelectSeq(sell_trades, LAMBDA t : PctPos(t.pnl_pct))
        win_rate == IF Len(sell_trades) > 0
                    THEN Pct(Len(winning_trades), Len(sell_trades))
                    ELSE Pct(0, 1)
        losing_trades == SelectSeq(sell_trades, LAMBDA t : ~PctPos(t.pnl_pct))
        pnl(ts) == [k \in 1..Len(ts) |-> ts[k].pnl_pct]
        avg_win == IF Len(sell_trades) > 0 /\ Len(winning_trades) > 0
                   THEN np_mean(pnl(winning_trades)) ELSE Pct(0, 1)
        avg_loss == IF Len(sell_trades) > 0 /\ Len(losing_trades) > 0
                    THEN np_mean(pnl(losing_trades)) ELSE Pct(0, 1)
    IN  [buy_threshold |-> buy, sell_threshold |-> sell,
         initial_capital |-> cap,
         final_value |-> final_value,
         total_return_pct |-> total_return,
         buy_hold_return_pct |-> buy_hold_return,
         outperformance |-> PctSub(total_return, buy_hold_return),
         num_trades |-> Len(s.trades),
         num_sells |-> Len(sell_trades),
         win_rate |-> win_rate,
         avg_win_pct |-> avg_win,
         avg_loss_pct |-> avg_loss,
         final_position |-> s.position,
         trades |-> s.trades]

TooShort_OffByOne(valid) == Len(valid) <= MinRows

(* if len(df) < 30: return None *)
TooShort(valid) == Len(valid) < MinRows

----------------------------------------------------------------------------
(* Inputs of the backtest: a raw series is MaxLead-bounded warm-up rows    *)
(* (every indicator undefined) followed by a pattern of bars repeated to   *)
(* the length of the series; calculate_indicators scores it.               *)
BtPrices == {2, 3}
BtTrends == {<<0, 1>>, <<0, -1>>, <<5, -1>>}     \* <<both moving averages, direction>>
BtBars == {[Price |-> p, ma |-> t[1], dir |-> t[2]] : p \in BtPrices, t \in BtTrends}
SeriesLengths == MinRows..(MinRows + MaxExtra)

Series(lead, pat, n) ==
    [k \in 1..n |->
        IF k <= lead THEN RawRow(k, pat[1].Price, NaN, NaN, NaN, NaN, NaN, NaN)
        ELSE LET b == pat[((k - lead - 1) % Len(pat)) + 1]
             IN  RawRow(k, b.Price, b.ma, b.ma, 60, b.dir, 110, 100)]

BtSeries ==
    {Series(lead, pat, n) : lead \in 0..MaxLead, pat \in [1..PatLen -> BtBars],
                            n \in SeriesLengths}

ThresholdPairs == {<<4, 0>>, <<3, 3>>, <<0, 4>>}   \* <<buy, sell>>: usual, equal, inverted
InitCapitals == {2, 5}

scoreVars == <<bt_df, result_df, daily_signals>>
gridVars == <<gpc, buy_thresh, sell_thresh, results, grid_out>>
callVars == <<buy_threshold, sell_threshold, initial_capital>>
localVars == <<rows, i, capital, shares, position, buy_price, trades>>

NoLocals ==
    /\ rows = <<>> /\ i = 0
    /\ capital = 0 /\ shares = 0 /\ position = "CASH" /\ buy_price = 0 /\ trades = <<>>

(* A direct call backtest_strategy(df, buy_threshold, sell_threshold, initial_capital) *)
Init ==
    /\ \E raw \in BtSeries : df = calculate_indicators(raw, FALSE)
    /\ st_empty = FALSE
    /\ \E th \in ThresholdPairs : buy_threshold = th[1] /\ sell_threshold = th[2]
    /\ initial_capital \in InitCapitals
    /\ pc = "bt_start"
    /\ NoLocals
    /\ result = None
    /\ bt_df = NoFrame /\ result_df = NoFrame /\ daily_signals = None
    /\ gpc = "none" /\ buy_thresh = 0 /\ sell_thresh = 0 /\ results = <<>> /\ grid_out = None
    /\ NoMain /\ NoApp

Locals == [capital |-> capital, shares |-> shares, position |-> position,
           buy_price |-> buy_price, trades |-> trades]

(* df = df.dropna(); if len(df) < 30: return None *)
BtReject ==
    /\ pc = "bt_start"
    /\ TooShort(dropna(df))
    /\ rows' = dropna(df)
    /\ result' = None
    /\ pc' = "bt_done"
    /\ UNCHANGED <<df, st_empty, callVars, i, capital, shares, position, buy_price, trades,
                   scoreVars, gridVars>>
    /\ UNCHANGED <<mainVars, appVars>>

(* df = df.dropna() and the assignments before the loop *)
BtBegin ==
    /\ pc = "bt_start"
    /\ ~TooShort(dropna(df))
    /\ rows' = dropna(df)
    /\ LET s == InitialLocals(initial_capital)
       IN  /\ capital' = s.capital
           /\ shares' = s.shares
           /\ position' = s.position
           /\ buy_price' = s.buy_price
           /\ trades' = s.trades
    /\ i' = 0
    /\ pc' = "bt_loop"
    /\ UNCHANGED <<df, st_empty, callVars, result, scoreVars, gridVars>>
    /\ UNCHANGED <<mainVars, appVars>>

(* one iteration of: for i in range(len(df)) *)
BtBar ==
    /\ pc = "bt_loop"
    /\ i < Len(rows)
    /\ LET s == ProcessBar(Locals, rows[i + 1], buy_threshold, sell_threshold)
       IN  /\ capital' = s.capital
           /\ shares' = s.shares
           /\ position' = s.position
           /\ buy_price' = s.buy_price
           /\ trades' = s.trades
    /\ i' = i + 1
    /\ UNCHANGED <<df, st_empty, callVars, pc, rows, result, scoreVars, gridVars>>
    /\ UNCHANGED <<mainVars, appVars>>

(* after the loop: final valuation and the returned dictionary *)
BtReturn ==
    /\ pc = "bt_loop"
    /\ i = Len(rows)
    /\ result' = Evaluate(Locals, rows, buy_threshold, sell_threshold, initial_capital)
    /\ pc' = "bt_done"
    /\ UNCHANGED <<df, st_empty, callVars, localVars, scoreVars, gridVars>>
    /\ UNCHANGED <<mainVars, appVars>>

Next == BtReject \/ BtBegin \/ BtBar \/ BtReturn

Spec == Init /\ [][Next]_vars

(* A call with the default capital on a series whose Indicator is 5 on the *)
(* first bar (price 1000), -1 on bar ks (price 1100) and 3 on every other  *)
(* bar (price p): under the thresholds <<4, 0>> one BUY at 1000 and one    *)
(* SELL at 1100.                                                           *)
OneTradeSeries ==
    {[k \in 1..n |->
         IF k = 1 THEN RawRow(k, 1000, 0, 0, 60, 1, 110, 100)
         ELSE IF k = ks THEN RawRow(k, 1100, 2000, 2000, 60, -1, 110, 100)
         ELSE RawRow(k, p, 0, 0, 60, -1, 110, 100)]
     : n \in SeriesLengths, ks \in {2, MinRows}, p \in {1000, 1100}}

InitDefaultCapital ==
    /\ \E raw \in OneTradeSeries : df = calculate_indicators(raw, FALSE)
    /\ st_empty = FALSE
    /\ \E th \in ThresholdPairs : buy_threshold = th[1] /\ sell_threshold = th[2]
    /\ initial_capital = DefaultCapital
    /\ pc = "bt_start"
    /\ NoLocals
    /\ result = None
    /\ bt_df = NoFrame /\ result_df = NoFrame /\ daily_signals = None
    /\ gpc = "none" /\ buy_thresh = 0 /\ sell_thresh = 0 /\ results = <<>> /\ grid_out = None
    /\ NoMain /\ NoApp

(* Direct calls of backtest_strategy with small capitals and with the      *)
(* default capital.                                                        *)
SpecTrade == (Init \/ InitDefaultCapital) /\ [][Next]_vars

----------------------------------------------------------------------------
(* ---- the Delta rule of the position simulator ---- *)
(* The repository's "diff" variant of the backtest is not among the        *)
(* sources modelled above; the rule is taken from the specification,       *)
(* section 4.3: BUY when state = CASH and Indicator Diff > 1, SELL when    *)
(* state = HOLDING and Indicator Diff < -1, with Indicator Diff(t) =       *)
(* Indicator(t) - Indicator(t-1) and 0 on the first bar (section 4.2).     *)
(* The rule set is selected when the call starts; BUY and SELL themselves  *)
(* and the evaluation are those of backtest_strategy.                      *)

Indicator_Diff(frame, k) == IF k = 1 THEN 0 ELSE frame[k].Indicator - frame[k - 1].Indicator

DeltaBuySignal_Inclusive(s, diff) == s.position = "CASH" /\ diff >= 1

DeltaBuySignal(s, diff) == s.position = "CASH" /\ diff > 1

DeltaSellSignal(s, diff) == s.position = "HOLDING" /\ diff < -1

ProcessBar_Delta(s, row, diff) ==
    IF DeltaBuySignal(s, diff) THEN Buy(s, row)
    ELSE IF DeltaSellSignal(s, diff) THEN Sell(s, row)
    ELSE s

(* Inputs: bars whose Indicator is 4, 3 or 1, so that consecutive bars     *)
(* differ by 1, 2 or 3 either way.                                         *)
DeltaTrends(p) == {<<p, 0, 1>>, <<0, 0, -1>>, <<0, 5, -1>>}   \* <<MA_5, MA_10, direction>>
DeltaBars ==
    UNION {{[Price |-> p, ma5 |-> t[1], ma10 |-> t[2], dir |-> t[3]] : t \in DeltaTrends(p)}
           : p \in BtPrices}

DeltaSeries(n) ==
    {[k \in 1..n |->
         IF k <= lead THEN RawRow(k, pat[1].Price, NaN, NaN, NaN, NaN, NaN, NaN)
         ELSE LET b == pat[((k - lead - 1) % Len(pat)) + 1]
              IN  RawRow(k, b.Price, b.ma5, b.ma10, 60, b.dir, 110, 100)]
     : lead \in 0..MaxLead, pat \in [1..PatLen -> DeltaBars]}

DeltaThresholds == {<<4, 0>>, <<0, 4>>}

InitDelta ==
    /\ \E n \in SeriesLengths : \E raw \in DeltaSeries(n) : df = calculate_indicators(raw, FALSE)
    /\ st_empty = FALSE
    /\ \E th \in DeltaThresholds : buy_threshold = th[1] /\ sell_threshold = th[2]
    /\ initial_capital = 2
    /\ pc = "bt_start"
    /\ NoLocals
    /\ result = None
    /\ bt_df = NoFrame /\ result_df = NoFrame /\ daily_signals = None
    /\ gpc = "none" /\ buy_thresh = 0 /\ sell_thresh = 0 /\ results = <<>> /\ grid_out = None
    /\ NoMain /\ NoApp

(* the call starts with the Delta rule selected *)
BtBeginDelta ==
    /\ pc = "bt_start"
    /\ ~TooShort(dropna(df))
    /\ rows' = dropna(df)
    /\ LET s == InitialLocals(initial_capital)
       IN  /\ capital' = s.capital
           /\ shares' = s.shares
           /\ position' = s.position
           /\ buy_price' = s.buy_price
           /\ trades' = s.trades
    /\ i' = 0
    /\ pc' = "bt_loop_delta"
    /\ UNCHANGED <<df, st_empty, callVars, result, scoreVars, gridVars>>
    /\ UNCHANGED <<mainVars, appVars>>

(* one bar under the Delta rule *)
BtBarDelta ==
    /\ pc = "bt_loop_delta"
    /\ i < Len(rows)
    /\ LET row == rows[i + 1]
           s == ProcessBar_Delta(Locals, row, Indicator_Diff(df, row.date))
       IN  /\ capital' = s.capital
           /\ shares' = s.shares
           /\ position' = s.position
           /\ buy_price' = s.buy_price
           /\ trades' = s.trades
    /\ i' = i + 1
    /\ UNCHANGED <<df, st_empty, callVars, pc, rows, result, scoreVars, gridVars>>
    /\ UNCHANGED <<mainVars, appVars>>

BtReturnDelta ==
    /\ pc = "bt_loop_delta"
    /\ i = Len(rows)
    /\ result' = Evaluate(Locals, rows, buy_threshold, sell_threshold, initial_capital)
    /\ pc' = "bt_done"
    /\ UNCHANGED <<df, st_empty, callVars, localVars, scoreVars, gridVars>>
    /\ UNCHANGED <<mainVars, appVars>>

NextDelta ==
    \/ BtReject \/ BtBegin \/ BtBar \/ BtReturn
    \/ BtBeginDelta \/ BtBarDelta \/ BtReturnDelta

SpecDelta == InitDelta /\ [][NextDelta]_vars

----------------------------------------------------------------------------
(* ---- backtest.py run_backtest_grid ---- *)

sort_values_Ascending(res, tiesFirst) ==
    LET ret(k) == res[k].total_return_pct
        Before(j, k) ==     \* row j is placed before row k
            IF PctLeq(ret(k), ret(j)) THEN PctLeq(ret(j), ret(k)) /\ j > k ELSE TRUE
        place == [k \in 1..Len(res) |->
                     Cardinality({j \in 1..Len(res) : j # k /\ Before(j, k)}) + 1]
    IN  [p \in 1..Len(res) |-> res[CHOOSE k \in 1..Len(res) : place[k] = p]]

(* results_df.sort_values('total_return_pct', ascending=False).  The       *)
(* default sort is not stable: rows of equal return come out in an order   *)
(* the library chooses; tiesFirst picks between the two extreme orders     *)
(* (a row goes before / after the rows it ties with).  place[k] is the     *)
(* position of row k in the result: one more than the rows before it.      *)
sort_values(res, tiesFirst) ==
    LET ret(k) == res[k].total_return_pct
        Before(j, k) ==     \* row j is placed before row k
            IF PctLeq(ret(j), ret(k))
            THEN PctLeq(ret(k), ret(j)) /\ (IF tiesFirst THEN j > k ELSE j < k)
            ELSE TRUE
        place == [k \in 1..Len(res) |->
                     Cardinality({j \in 1..Len(res) : j # k /\ Before(j, k)}) + 1]
    IN  [p \in 1..Len(res) |-> res[CHOOSE k \in 1..Len(res) : place[k] = p]]

(* for buy_thresh in range(-2, 6): for sell_thresh in range(-5, buy_thresh) *)
GridBuyMin  == -2
GridBuyMax  == 5
GridSellMin == -5

(* Inputs of the grid: the downloaded frame, empty or a series as above    *)
(* at prices the default capital can trade.                                *)
GridPrices == {1000, 1050}
GridTrends == {<<0, 1>>, <<2000, -1>>}
GridBars == {[Price |-> p, ma |-> t[1], dir |-> t[2]] : p \in GridPrices, t \in GridTrends}
GridSeries ==
    {Series(lead, pat, n) : lead \in 0..MaxLead, pat \in [1..PatLen -> GridBars],
                            n \in SeriesLengths}

InitGrid ==
    /\ df \in GridSeries \cup {<<>>}
    /\ st_empty = FALSE
    /\ buy_threshold = 0 /\ sell_threshold = 0 /\ initial_capital = 0
    /\ pc = "idle"
    /\ NoLocals
    /\ result = None
    /\ bt_df = NoFrame /\ result_df = NoFrame /\ daily_signals = None
    /\ gpc = "grid_start" /\ buy_thresh = 0 /\ sell_thresh = 0 /\ results = <<>>
    /\ grid_out = None
    /\ NoMain /\ NoApp

(* if df.empty: return None *)
GridNoData ==
    /\ gpc = "grid_start"
    /\ Len(df) = 0
    /\ grid_out' = None
    /\ gpc' = "grid_done"
    /\ UNCHANGED <<df, st_empty, callVars, pc, localVars, result, scoreVars,
                   buy_thresh, sell_thresh, results>>
    /\ UNCHANGED <<mainVars, appVars>>

(* df = calculate_indicators(df); df = df.dropna(); results = []; first pair *)
GridPrepare ==
    /\ gpc = "grid_start"
    /\ Len(df) > 0
    /\ df' = dropna(calculate_indicators(df, st_empty))
    /\ results' = <<>>
    /\ buy_thresh' = GridBuyMin
    /\ sell_thresh' = GridSellMin
    /\ gpc' = "grid_loop"
    /\ UNCHANGED <<st_empty, callVars, pc, localVars, result, scoreVars, grid_out>>
    /\ UNCHANGED <<mainVars, appVars>>

(* result = backtest_strategy(df, buy_thresh, sell_thresh): the call *)
GridCall ==
    /\ gpc = "grid_loop"
    /\ buy_threshold' = buy_thresh
    /\ sell_threshold' = sell_thresh
    /\ initial_capital' = DefaultCapital
    /\ pc' = "bt_start"
    /\ gpc' = "grid_call"
    /\ UNCHANGED <<df, st_empty, localVars, result, scoreVars,
                   buy_thresh, sell_thresh, results, grid_out>>
    /\ UNCHANGED <<mainVars, appVars>>

(* if result: results.append(result); then the next pair of the two loops *)
GridCollect ==
    /\ gpc = "grid_call"
    /\ pc = "bt_done"
    /\ results' = IF result # None THEN Append(results, result) ELSE results
    /\ IF sell_thresh + 1 < buy_thresh
       THEN /\ sell_thresh' = sell_thresh + 1
            /\ buy_thresh' = buy_thresh
            /\ gpc' = "grid_loop"
       ELSE IF buy_thresh + 1 <= GridBuyMax
       THEN /\ buy_thresh' = buy_thresh + 1
            /\ sell_thresh' = GridSellMin
            /\ gpc' = "grid_loop"
       ELSE /\ UNCHANGED <<buy_thresh, sell_thresh>>
            /\ gpc' = "grid_sort"
    /\ pc' = "idle"
    /\ UNCHANGED <<df, st_empty, callVars, localVars, result, scoreVars, grid_out>>
    /\ UNCHANGED <<mainVars, appVars>>

(* if not results: return None *)
GridNoResults ==
    /\ gpc = "grid_sort"
    /\ results = <<>>
    /\ grid_out' = None
    /\ gpc' = "grid_done"
    /\ UNCHANGED <<df, st_empty, callVars, pc, localVars, result, scoreVars,
                   buy_thresh, sell_thresh, results>>
    /\ UNCHANGED <<mainVars, appVars>>

(* results_df = ...sort_values(...); return results_df, df *)
GridReturn ==
    /\ gpc = "grid_sort"
    /\ results # <<>>
    /\ \E tiesFirst \in BOOLEAN :
          grid_out' = [results_df |-> sort_values(results, tiesFirst), df |-> df]
    /\ gpc' = "grid_done"
    /\ UNCHANGED <<df, st_empty, callVars, pc, localVars, result, scoreVars,
                   buy_thresh, sell_thresh, results>>
    /\ UNCHANGED <<mainVars, appVars>>

NextGrid ==
    \/ BtReject \/ BtBegin \/ BtBar \/ BtReturn
    \/ GridNoData \/ GridPrepare \/ GridCall \/ GridCollect \/ GridNoResults \/ GridReturn

(* Every entry of backtest.py: direct calls of backtest_strategy and runs  *)
(* of run_backtest_grid.                                                   *)
SpecGrid == (Init \/ InitGrid) /\ [][NextGrid]_vars

----------------------------------------------------------------------------
(* ---- backtest.py main ---- *)

tickers == <<"RATU.JK", "IMPC.JK", "BKSL.JK">>

(* What yf.download hands to run_backtest_grid for a ticker: nothing, a    *)
(* series one valid row short of the minimum, a series that can be traded. *)
MainPattern ==
    <<[Price |-> 1000, ma |-> 0, dir |-> 1], [Price |-> 1050, ma |-> 2000, dir |-> -1]>>
MainDownloads == {<<>>, Series(1, MainPattern, MinRows), Series(0, MainPattern, MinRows)}

Catches_OnlyValueError(exc) == exc = "ValueError"

(* except Exception as e: every exception the loop body raises is caught *)
Catches(exc) == exc \in {"TypeError", "ValueError", "KeyError", "Exception"}

InitMain ==
    /\ df = <<>>
    /\ st_empty = FALSE
    /\ buy_threshold = 0 /\ sell_threshold = 0 /\ initial_capital = 0
    /\ pc = "idle"
    /\ NoLocals
    /\ result = None
    /\ bt_df = NoFrame /\ result_df = NoFrame /\ daily_signals = None
    /\ gpc = "none" /\ buy_thresh = 0 /\ sell_thresh = 0 /\ results = <<>> /\ grid_out = None
    /\ mpc = "main_loop" /\ ticker_idx = 0 /\ all_results = <<>>
    /\ NoApp

(* for ticker in tickers: ... run_backtest_grid(ticker, period='2y'): the  *)
(* call, up to the download                                                *)
MainCall ==
    /\ mpc = "main_loop"
    /\ ticker_idx < Len(tickers)
    /\ df' \in MainDownloads
    /\ gpc' = "grid_start"
    /\ results' = <<>>
    /\ grid_out' = None
    /\ mpc' = "main_call"
    /\ UNCHANGED <<st_empty, callVars, pc, localVars, result, scoreVars,
                   buy_thresh, sell_thresh, ticker_idx, all_results, appVars>>

(* results_df, df = <returned value>: unpacking None raises TypeError,     *)
(* which the except clause turns into `continue`; otherwise the ranking is *)
(* stored and printed.  An exception that is not caught ends main.         *)
MainUnpack ==
    /\ mpc = "main_call"
    /\ gpc = "grid_done"
    /\ IF grid_out = None
       THEN IF Catches("TypeError")
            THEN /\ mpc' = "main_loop"
                 /\ ticker_idx' = ticker_idx + 1
                 /\ UNCHANGED all_results
            ELSE /\ mpc' = "main_aborted"
                 /\ UNCHANGED <<ticker_idx, all_results>>
       ELSE /\ all_results' = (tickers[ticker_idx + 1] :> grid_out.results_df) @@ all_results
            /\ mpc' = "main_loop"
            /\ ticker_idx' = ticker_idx + 1
    /\ gpc' = "none"
    /\ UNCHANGED <<df, st_empty, callVars, pc, localVars, result, scoreVars,
                   buy_thresh, sell_thresh, results, grid_out, appVars>>

(* after the loop: the summary across all stocks *)
MainSummary ==
    /\ mpc = "main_loop"
    /\ ticker_idx = Len(tickers)
    /\ mpc' = "main_done"
    /\ UNCHANGED <<df, st_empty, callVars, pc, localVars, result, scoreVars, gridVars,
                   ticker_idx, all_results, appVars>>

NextMain == NextGrid \/ MainCall \/ MainUnpack \/ MainSummary

SpecMain == InitMain /\ [][NextMain]_vars

----------------------------------------------------------------------------
(* ---- app.py: the module's globals, the request handlers and the        *)
(* ---- background updater, as threads that share the globals             *)

MaxRequests == 3    \* handler runs (requests, updater rounds) in one behaviour

(* INTERVALS: the keys of the dictionary of available intervals *)
INTERVALS == {"5m", "1h", "1d"}

(* TICKERS as the module is loaded *)
InitialTickers == <<"RATU.JK", "IMPC.JK", "BKSL.JK">>

Elements(list) == {list[k] : k \in 1..Len(list)}

(* The background updater thread and the threads of the server that run    *)
(* one request each                                                        *)
RequestThreads == {"req1", "req2"}
Threads == {"updater"} \cup RequestThreads

(* Request inputs: the ?interval= argument of /api/refresh, the interval   *)
(* of /api/set_interval/<interval>, the ticker of add_stock, remove_stock  *)
RefreshArgs == {"15m"}
SetIntervalArgs == {"5m", "15m"}
TickerArgs == {"RATU.JK", "IMPC.JK", "BKSL.JK", "ratu.jk"}

(* str.upper() on the ticker arguments *)
upper(ticker) == IF ticker = "ratu.jk" THEN "RATU.JK" ELSE ticker

(* fetcher.get_stock_data(...): a frame, or None (no data, or an error) *)
FetchOutcomes == {"data", "None"}

(* A thread that runs no handler *)
Idle == [op |-> "none", at |-> "idle", interval |-> "", idx |-> 0, ticker |-> ""]

(* stock_data_cache[ticker] = {..., 'ticker': ticker, 'interval': interval} *)
CacheStore(cache, ticker, interval) ==
    (ticker :> [ticker |-> ticker, interval |-> interval]) @@ cache

(* if ticker in stock_data_cache: del stock_data_cache[ticker] *)
CacheDelete(cache, ticker) == [t \in (DOMAIN cache) \ {ticker} |-> cache[t]]

(* list.remove(x): drops the first occurrence *)
ListRemove(list, x) ==
    LET k == CHOOSE j \in 1..Len(list) : list[j] = x /\ \A m \in 1..(j - 1) : list[m] # x
    IN  SubSeq(list, 1, k - 1) \o SubSeq(list, k + 1, Len(list))

(* init_app(): the initial fetch with the default interval has run, the    *)
(* updater thread is started and sleeps                                    *)
InitApp ==
    /\ df = <<>>
    /\ st_empty = FALSE
    /\ buy_threshold = 0 /\ sell_threshold = 0 /\ initial_capital = 0
    /\ pc = "idle"
    /\ NoLocals
    /\ result = None
    /\ bt_df = NoFrame /\ result_df = NoFrame /\ daily_signals = None
    /\ gpc = "none" /\ buy_thresh = 0 /\ sell_thresh = 0 /\ results = <<>> /\ grid_out = None
    /\ NoMain
    /\ current_interval = "1h"
    /\ TICKERS = InitialTickers
    /\ stock_data_cache =
          [t \in Elements(InitialTickers) |-> [ticker |-> t, interval |-> "1h"]]
    /\ threads = [t \in Threads |-> Idle]
    /\ requests = 0

(* A free thread starts a handler: the server hands it an authenticated    *)
(* request, or the updater wakes up                                        *)
Accept(t) ==
    /\ threads[t].at = "idle"
    /\ requests < MaxRequests
    /\ requests' = requests + 1

Return(t) == threads' = [threads EXCEPT ![t] = Idle]

(* update_stock_data: after the sleep, in trading hours,                   *)
(* fetch_all_stocks(interval=current_interval, ...) is called              *)
UpdateStockData ==
    /\ Accept("updater")
    /\ threads' = [threads EXCEPT !["updater"] =
           [Idle EXCEPT !.op = "update_stock_data", !.at = "fetch_begin",
                        !.interval = current_interval]]
    /\ UNCHANGED <<current_interval, stock_data_cache, TICKERS>>
    /\ UNCHANGED <<df, st_empty, callVars, pc, localVars, result, scoreVars, gridVars,
                   mainVars>>

(* refresh_data: interval = request.args.get('interval', current_interval) *)
(* goes to fetch_all_stocks as it is                                       *)
RefreshData(t) ==
    /\ Accept(t)
    /\ \E interval \in RefreshArgs \cup {current_interval} :
          threads' = [threads EXCEPT ![t] =
              [Idle EXCEPT !.op = "refresh_data", !.at = "fetch_begin",
                           !.interval = interval]]
    /\ UNCHANGED <<current_interval, stock_data_cache, TICKERS>>
    /\ UNCHANGED <<df, st_empty, callVars, pc, localVars, result, scoreVars, gridVars,
                   mainVars>>

(* set_interval: if interval not in INTERVALS: return 400 *)
SetInterval(t) ==
    /\ Accept(t)
    /\ \E interval \in SetIntervalArgs :
          IF interval \notin INTERVALS
          THEN UNCHANGED threads
          ELSE threads' = [threads EXCEPT ![t] =
                  [Idle EXCEPT !.op = "set_interval", !.at = "fetch_begin",
                               !.interval = interval]]
    /\ UNCHANGED <<current_interval, stock_data_cache, TICKERS>>
    /\ UNCHANGED <<df, st_empty, callVars, pc, localVars, result, scoreVars, gridVars,
                   mainVars>>

(* fetch_all_stocks: current_interval = interval; the loop starts *)
FetchBegin(t) ==
    /\ threads[t].at = "fetch_begin"
    /\ current_interval' = threads[t].interval
    /\ threads' = [threads EXCEPT ![t].at = "fetch_loop", ![t].idx = 0]
    /\ UNCHANGED <<stock_data_cache, TICKERS, requests>>
    /\ UNCHANGED <<df, st_empty, callVars, pc, localVars, result, scoreVars, gridVars,
                   mainVars>>

(* for ticker in TICKERS: the list iterator takes the element at its index *)
(* of the list as it is now, or ends the loop                              *)
FetchNext(t) ==
    /\ threads[t].at = "fetch_loop"
    /\ IF threads[t].idx < Len(TICKERS)
       THEN threads' = [threads EXCEPT ![t].ticker = TICKERS[threads[t].idx + 1],
                                       ![t].idx = threads[t].idx + 1,
                                       ![t].at = "fetch_store"]
       ELSE Return(t)
    /\ UNCHANGED <<current_interval, stock_data_cache, TICKERS, requests>>
    /\ UNCHANGED <<df, st_empty, callVars, pc, localVars, result, scoreVars, gridVars,
                   mainVars>>

(* data = fetcher.get_stock_data(ticker, ...) has returned;                *)
(* if data is not None: stock_data_cache[ticker] = {...}                   *)
FetchStore(t) ==
    /\ threads[t].at = "fetch_store"
    /\ \E data \in FetchOutcomes :
          stock_data_cache' =
              IF data # "None"
              THEN CacheStore(stock_data_cache, threads[t].ticker, threads[t].interval)
              ELSE stock_data_cache
    /\ threads' = [threads EXCEPT ![t].at = "fetch_loop"]
    /\ UNCHANGED <<current_interval, TICKERS, requests>>
    /\ UNCHANGED <<df, st_empty, callVars, pc, localVars, result, scoreVars, gridVars,
                   mainVars>>

(* add_stock: ticker.upper(); if ticker in TICKERS: return 400 *)
AddStock(t) ==
    /\ Accept(t)
    /\ \E arg \in TickerArgs :
          IF upper(arg) \in Elements(TICKERS)
          THEN UNCHANGED threads
          ELSE threads' = [threads EXCEPT ![t] =
                  [Idle EXCEPT !.op = "add_stock", !.at = "add_fetch",
                               !.ticker = upper(arg)]]
    /\ UNCHANGED <<current_interval, stock_data_cache, TICKERS>>
    /\ UNCHANGED <<df, st_empty, callVars, pc, localVars, result, scoreVars, gridVars,
                   mainVars>>

(* data = fetcher.get_stock_data(ticker, ...) has returned;                *)
(* if data is None or data.empty: return 404; TICKERS.append(ticker)       *)
AddAppend(t) ==
    /\ threads[t].at = "add_fetch"
    /\ \E data \in FetchOutcomes :
          IF data = "None"
          THEN Return(t) /\ UNCHANGED TICKERS
          ELSE TICKERS' = Append(TICKERS, threads[t].ticker) /\ threads' = [threads EXCEPT ![t].at = "add_store"]
    /\ UNCHANGED <<current_interval, stock_data_cache, requests>>
    /\ UNCHANGED <<df, st_empty, callVars, pc, localVars, result, scoreVars, gridVars,
                   mainVars>>

(* stock_data_cache[ticker] = {..., 'interval': current_interval, ...} *)
AddStore(t) ==
    /\ threads[t].at = "add_store"
    /\ stock_data_cache' = CacheStore(stock_data_cache, threads[t].ticker, current_interval)
    /\ Return(t)
    /\ UNCHANGED <<current_interval, TICKERS, requests>>
    /\ UNCHANGED <<df, st_empty, callVars, pc, localVars, result, scoreVars, gridVars,
                   mainVars>>

(* remove_stock: ticker.upper(); if ticker not in TICKERS: return 404;     *)
(* if len(TICKERS) <= 1: return 400                                        *)
RemoveStock(t) ==
    /\ Accept(t)
    /\ \E arg \in TickerArgs :
          IF upper(arg) \notin Elements(TICKERS) \/ Len(TICKERS) <= 1
          THEN UNCHANGED threads
          ELSE threads' = [threads EXCEPT ![t] =
                  [Idle EXCEPT !.op = "remove_stock", !.at = "remove_list",
                               !.ticker = upper(arg)]]
    /\ UNCHANGED <<current_interval, stock_data_cache, TICKERS>>
    /\ UNCHANGED <<df, st_empty, callVars, pc, localVars, result, scoreVars, gridVars,
                   mainVars>>

(* TICKERS.remove(ticker); a ticker that is no longer in the list raises   *)
(* ValueError, which the handler answers with 500                          *)
RemoveList(t) ==
    /\ threads[t].at = "remove_list"
    /\ IF threads[t].ticker \in Elements(TICKERS)
       THEN TICKERS' = ListRemove(TICKERS, threads[t].ticker) /\ threads' = [threads EXCEPT ![t].at = "remove_cache"]
       ELSE UNCHANGED TICKERS /\ Return(t)
    /\ UNCHANGED <<current_interval, stock_data_cache, requests>>
    /\ UNCHANGED <<df, st_empty, callVars, pc, localVars, result, scoreVars, gridVars,
                   mainVars>>

(* if ticker in stock_data_cache: del stock_data_cache[ticker] *)
RemoveCache(t) ==
    /\ threads[t].at = "remove_cache"
    /\ stock_data_cache' = CacheDelete(stock_data_cache, threads[t].ticker)
    /\ Return(t)
    /\ UNCHANGED <<current_interval, TICKERS, requests>>
    /\ UNCHANGED <<df, st_empty, callVars, pc, localVars, result, scoreVars, gridVars,
                   mainVars>>

NextApp ==
    \/ UpdateStockData
    \/ \E t \in RequestThreads : RefreshData(t)
    \/ \E t \in RequestThreads : SetInterval(t)
    \/ \E t \in Threads : FetchBegin(t)
    \/ \E t \in Threads : FetchNext(t)
    \/ \E t \in Threads : FetchStore(t)
    \/ \E t \in RequestThreads : AddStock(t)
    \/ \E t \in RequestThreads : AddAppend(t)
    \/ \E t \in RequestThreads : AddStore(t)
    \/ \E t \in RequestThreads : RemoveStock(t)
    \/ \E t \in RequestThreads : RemoveList(t)
    \/ \E t \in RequestThreads : RemoveCache(t)

SpecApp == InitApp /\ [][NextApp]_vars

----------------------------------------------------------------------------
(* ---- the two scorers and the live monitor on one frame ---- *)

(* Inputs of the scorers: the last row of the frame takes every            *)
(* combination of the values below (undefined, and each side of every      *)
(* threshold the scorers test); up to MaxPrev earlier rows come before it. *)
MaxPrev == 1

ScMA  == {NaN, 1, 2, 3}                 \* against Price = 2
ScRSI == {NaN, 30, 40, 50, 75, 80}
ScDir == {NaN, 1, -1}
ScVol == {<<NaN, NaN>>, <<100, NaN>>, <<0, 0>>, <<85, 100>>, <<90, 100>>, <<100, 100>>,
          <<110, 100>>, <<120, 100>>}
PrevRows == {[ma |-> 1, rsi |-> 60], [ma |-> 3, rsi |-> 80]}

ScoreFrames ==
    {<<>>} \cup
    UNION {{ [k \in 1..(n + 1) |->
                 IF k <= n THEN RawRow(k, 2, prev[k].ma, prev[k].ma, prev[k].rsi, 1, 120, 100)
                 ELSE RawRow(k, 2, m5, m10, rsi, dir, vol[1], vol[2])]
             : prev \in [1..n -> PrevRows], m5 \in ScMA, m10 \in ScMA,
               rsi \in ScRSI, dir \in ScDir, vol \in ScVol }
           : n \in 0..MaxPrev}

InitScore ==
    /\ df \in ScoreFrames
    /\ st_empty \in BOOLEAN
    /\ buy_threshold = 0 /\ sell_threshold = 0 /\ initial_capital = 0
    /\ pc = "idle"
    /\ NoLocals
    /\ result = None
    /\ bt_df = NoFrame /\ result_df = NoFrame /\ daily_signals = None
    /\ gpc = "none" /\ buy_thresh = 0 /\ sell_thresh = 0 /\ results = <<>> /\ grid_out = None
    /\ NoMain /\ NoApp

btVars == <<buy_threshold, sell_threshold, initial_capital, pc, rows, i,
            capital, shares, position, buy_price, trades, result>>

(* backtest.py: df = calculate_indicators(df), on a non-empty download *)
CalculateIndicators ==
    /\ bt_df = NoFrame
    /\ Len(df) > 0
    /\ bt_df' = calculate_indicators(df, st_empty)
    /\ UNCHANGED <<df, st_empty, btVars, result_df, daily_signals, gridVars>>
    /\ UNCHANGED <<mainVars, appVars>>

(* stock_fetcher.py: fetcher.get_stock_data(ticker, bars, interval) *)
GetStockData ==
    /\ result_df = NoFrame /\ daily_signals = None
    /\ \E bars \in {1, LiveBars} : result_df' = get_stock_data(df, st_empty, bars)
    /\ UNCHANGED <<df, st_empty, btVars, bt_df, daily_signals, gridVars>>
    /\ UNCHANGED <<mainVars, appVars>>

(* app.py get_live_monitor_data, one ticker: the daily frame it fetches    *)
(* and the daily_signals entry it builds from the latest row               *)
GetLiveMonitorData ==
    /\ daily_signals = None
    /\ LET daily_df == get_stock_data(df, st_empty, LiveBars)
       IN  /\ result_df' = daily_df
           /\ daily_signals' = live_daily_signal(daily_df)
    /\ UNCHANGED <<df, st_empty, btVars, bt_df, gridVars>>
    /\ UNCHANGED <<mainVars, appVars>>

NextScore == CalculateIndicators \/ GetStockData \/ GetLiveMonitorData

SpecScore == InitScore /\ [][NextScore]_vars

(* Inputs with the Volume column: the downloaded bars carry a volume of 0  *)
(* or 1000 each and a flat, rising or falling price; the moving averages   *)
(* of both columns are computed from them.  The frames are shorter than    *)
(* the 14 bars the RSI needs.                                              *)
MaxVolExtra == 1               \* bars beyond the long volume window
VolShort == 5                  \* ta.sma(df['Volume'], length=5)
VolLong  == 10                 \* ta.sma(df['Volume'], length=10)
Volumes == {0, 1000}
PriceShapes(n) == {[k \in 1..n |-> 20], [k \in 1..n |-> 20 + 2 * k], [k \in 1..n |-> 60 - 2 * k]}

VolumeFrame(price, vol) ==
    [k \in 1..Len(vol) |->
        RawRow(k, price[k], sma(price, 5, k), sma(price, 10, k), NaN, 1,
               sma(vol, VolShort, k), sma(vol, VolLong, k))]

IntegralOsc(frame) ==
    \A k \in 1..Len(frame) :
        (~isna(frame[k].vol_long) /\ frame[k].vol_long # 0) =>
            ((frame[k].vol_short - frame[k].vol_long) * 100) % frame[k].vol_long = 0

VolumeFrames(n) ==
    {f \in {VolumeFrame(price, vol) : price \in PriceShapes(n), vol \in [1..n -> Volumes]}
       : IntegralOsc(f)}

InitVolume ==
    /\ \E n \in VolLong..(VolLong + MaxVolExtra) : df \in VolumeFrames(n)
    /\ st_empty \in BOOLEAN
    /\ buy_threshold = 0 /\ sell_threshold = 0 /\ initial_capital = 0
    /\ pc = "idle"
    /\ NoLocals
    /\ result = None
    /\ bt_df = NoFrame /\ result_df = NoFrame /\ daily_signals = None
    /\ gpc = "none" /\ buy_thresh = 0 /\ sell_thresh = 0 /\ results = <<>> /\ grid_out = None
    /\ NoMain /\ NoApp

SpecVolume == InitVolume /\ [][NextScore]_vars

----------------------------------------------------------------------------
(* ---- calculate_indicators and backtest_strategy on trending closes ---- *)

RsiLength    == 14             \* ta.rsi(df['Close'], length=14)
StLength     == 10             \* ta.supertrend(..., length=10, multiplier=3)
StMultiplier == 3
MaxTrendExtra == 1             \* bars of a trending series beyond 44

(* ta.rsi at row k: 100 * (average gain) / (average gain + average loss)   *)
(* over the changes up to row k, undefined on the first length rows.  The  *)
(* closes of the model are monotone: the quotient is 100 without losses,   *)
(* 0 without gains and 0/0 without either.                                 *)
rsi(close, length, k) ==
    IF k <= length THEN NaN
    ELSE LET gains == \E j \in 2..k : close[j] > close[j - 1]
             losses == \E j \in 2..k : close[j] < close[j - 1]
         IN  IF gains /\ ~losses THEN 100
             ELSE IF losses /\ ~gains THEN 0
             ELSE NaN

(* The average true range of bars with High = Low = Close: the range of a  *)
(* bar is |close - previous close|, undefined on the first bar.  The       *)
(* closes of the model move by a constant step, on which the smoothed      *)
(* average equals the plain mean of the window.                            *)
atr(close, length, k) ==
    LET tr == [j \in 1..Len(close) |->
                  IF j = 1 THEN NaN
                  ELSE IF close[j] >= close[j - 1] THEN close[j] - close[j - 1]
                  ELSE close[j - 1] - close[j]]
    IN  sma(tr, length, k)

(* ta.supertrend: the forward pass over the bands hl2 -/+ multiplier * ATR; *)
(* the direction starts at 1, turns 1 on a close above the previous upper   *)
(* band, -1 on a close below the previous lower band, else stays, the band  *)
(* on the trend's side never moving back.  supertrend(close) is the         *)
(* sequence of the rows' direction and bands.                               *)
supertrend_row(close, k, prev) ==
    LET a == atr(close, StLength, k)
        bl == IF isna(a) THEN NaN ELSE close[k] - StMultiplier * a
        bu == IF isna(a) THEN NaN ELSE close[k] + StMultiplier * a
    IN  IF k = 1 THEN [dir |-> 1, lowerband |-> bl, upperband |-> bu]
        ELSE IF GT(close[k], prev.upperband)
        THEN [dir |-> 1, lowerband |-> bl, upperband |-> bu]
        ELSE IF LT(close[k], prev.lowerband)
        THEN [dir |-> -1, lowerband |-> bl, upperband |-> bu]
        ELSE [dir |-> prev.dir,
              lowerband |-> IF prev.dir > 0 /\ LT(bl, prev.lowerband)
                            THEN prev.lowerband ELSE bl,
              upperband |-> IF prev.dir < 0 /\ GT(bu, prev.upperband)
                            THEN prev.upperband ELSE bu]

(* The pass over the rows first..last, in order, after the rows `done`     *)
(* before them; a range of several rows is passed half by half.            *)
RECURSIVE supertrend_pass(_, _, _, _)
supertrend_pass(close, done, first, last) ==
    IF Len(done) # first - 1 \/ first > last THEN done
    ELSE IF first = last
         THEN Append(done, supertrend_row(close, first,
                                          IF done = <<>> THEN None ELSE done[Len(done)]))
    ELSE LET mid == (first + last) \div 2
         IN  supertrend_pass(close, supertrend_pass(close, done, first, mid), mid + 1, last)

supertrend(close) == supertrend_pass(close, <<>>, 1, Len(close))

(* The downloaded bars of a trend: closes 100, 101, ... or 139, 138, ...,  *)
(* flat volume 1000.  MA_10 of consecutive integers ends in .5; the model  *)
(* keeps its integer part, which is as far from the close as the mean is.  *)
Rising(n) == [k \in 1..n |-> 99 + k]
Falling(n) == [k \in 1..n |-> 140 - k]

TrendFrame(close) ==
    LET vol == [k \in 1..Len(close) |-> 1000]
        st == supertrend(close)
    IN  [k \in 1..Len(close) |->
            RawRow(k, close[k], sma(close, 5, k), sma(close, 10, k),
                   rsi(close, RsiLength, k), st[k].dir,
                   sma(vol, VolShort, k), sma(vol, VolLong, k))]

TrendFrames(n) == {TrendFrame(Rising(n)), TrendFrame(Falling(n))}

TrendThresholds == {<<2, 0>>, <<2, -1>>, <<1, 0>>, <<1, -4>>}

InitTrend ==
    /\ \E n \in 40..(44 + MaxTrendExtra) : \E raw \in TrendFrames(n) :
          df = calculate_indicators(raw, FALSE)
    /\ st_empty = FALSE
    /\ \E th \in TrendThresholds : buy_threshold = th[1] /\ sell_threshold = th[2]
    /\ initial_capital = DefaultCapital
    /\ pc = "bt_start"
    /\ NoLocals
    /\ result = None
    /\ bt_df = NoFrame /\ result_df = NoFrame /\ daily_signals = None
    /\ gpc = "none" /\ buy_thresh = 0 /\ sell_thresh = 0 /\ results = <<>> /\ grid_out = None
    /\ NoMain /\ NoApp

SpecTrend == InitTrend /\ [][Next]_vars

----------------------------------------------------------------------------
(* Properties of the position simulator (specification Spec)               *)

Alternates(log) ==
    \A k \in 1..Len(log) : log[k].action = (IF k % 2 = 1 THEN "BUY" ELSE "SELL")

(* C1: the trade log of backtest_strategy strictly alternates BUY, SELL,   *)
(* BUY, ... starting with a BUY (no two consecutive BUYs or SELLs, a SELL  *)
(* only after a BUY), and position is always CASH or HOLDING; the same     *)
(* holds of the trades and final_position it returns.                      *)
C1_TradesAlternate ==
    /\ position \in {"CASH", "HOLDING"}
    /\ Alternates(trades)
    /\ (position = "HOLDING") <=> (Len(trades) % 2 = 1)
    /\ result # None =>
          /\ Alternates(result.trades)
          /\ result.final_position \in {"CASH", "HOLDING"}

C1_Witness == pc = "bt_done" /\ result # None /\ Len(result.trades) >= 4

(* C2 as stated: after the last bar the position is force-closed, so a     *)
(* returned result reports CASH, no shares are left and the log ends with  *)
(* a SELL.                                                                 *)
C2_ForceClosed ==
    (pc = "bt_done" /\ result # None) =>
        /\ result.final_position = "CASH"
        /\ shares = 0
        /\ Len(result.trades) > 0 => result.trades[Len(result.trades)].action = "SELL"

(* C2 amended: a position still open after the last bar is not closed; it  *)
(* is valued at the last bar's price in final_value, no closing SELL is    *)
(* recorded, the shares stay and final_position is HOLDING.                *)
C2_OpenPositionValued ==
    (pc = "bt_done" /\ result # None /\ position = "HOLDING") =>
        /\ result.final_position = "HOLDING"
        /\ shares > 0
        /\ result.trades = trades
        /\ trades[Len(trades)].action = "BUY"
        /\ result.num_sells * 2 = Len(trades) - 1
        /\ result.final_value = capital + shares * rows[Len(rows)].Price

C2_Witness == pc = "bt_done" /\ result # None /\ position = "HOLDING" /\ Len(trades) >= 3

(* C3: per bar, a BUY is recorded exactly when the state is CASH,          *)
(* Indicator >= buy_threshold and floor(capital / price) > 0; a SELL       *)
(* exactly when the state is HOLDING and Indicator <= sell_threshold;      *)
(* otherwise nothing; never more than one trade per bar, whatever the      *)
(* order of the two thresholds.                                            *)
C3_LevelRule ==
    [][(pc = "bt_loop" /\ i' = i + 1) =>
        LET row == rows[i + 1]
            buyCase == /\ position = "CASH"
                       /\ row.Indicator >= buy_threshold
                       /\ capital \div row.Price > 0
            sellCase == position = "HOLDING" /\ row.Indicator <= sell_threshold
            added == SubSeq(trades', Len(trades) + 1, Len(trades'))
        IN  /\ Len(trades') >= Len(trades)
            /\ SubSeq(trades', 1, Len(trades)) = trades
            /\ Len(added) <= 1
            /\ buyCase <=> (Len(added) = 1 /\ added[1].action = "BUY")
            /\ sellCase <=> (Len(added) = 1 /\ added[1].action = "SELL")
            /\ \A k \in 1..Len(added) :
                  added[k].date = row.date /\ added[k].price = row.Price
       ]_vars

(* a bar that met both thresholds (buy_threshold <= sell_threshold) has    *)
(* just recorded its BUY                                                   *)
C3_Witness ==
    /\ pc = "bt_loop" /\ i > 0
    /\ buy_threshold <= sell_threshold
    /\ Len(trades) >= 3
    /\ trades[Len(trades)].action = "BUY"
    /\ trades[Len(trades)].date = rows[i].date
    /\ rows[i].Indicator <= sell_threshold

(* C7 as stated: the buy-and-hold value keeps the cash left over by the    *)
(* integer share count: shares * last + (initial - shares * first).        *)
C7_BuyHoldKeepsLeftover ==
    (pc = "bt_done" /\ result # None) =>
        LET first_price == rows[1].Price
            last_price == rows[Len(rows)].Price
            n == initial_capital \div first_price
            value == n * last_price + (initial_capital - n * first_price)
        IN  result.buy_hold_return_pct = Pct(value - initial_capital, initial_capital)

(* C10: a bar whose BUY condition holds in CASH while floor(capital/price) *)
(* is 0 changes none of capital, shares, position, buy_price, trades.      *)
C10_UnaffordableBuyIsNoOp ==
    [][(/\ pc = "bt_loop" /\ i' = i + 1
        /\ position = "CASH"
        /\ rows[i + 1].Indicator >= buy_threshold
        /\ capital \div rows[i + 1].Price = 0)
       => (/\ UNCHANGED <<capital, shares, position, buy_price, trades>>
           /\ position' = "CASH" /\ pc' = "bt_loop")
      ]_vars

(* the first BUY comes after an earlier bar that signalled a BUY the       *)
(* capital could not afford                                                *)
C10_Witness ==
    /\ pc = "bt_loop"
    /\ Len(trades) = 1 /\ trades[1].action = "BUY"
    /\ \E k \in 1..Len(rows) :
          /\ rows[k].date < trades[1].date
          /\ rows[k].Indicator >= buy_threshold
          /\ initial_capital \div rows[k].Price = 0

(* C11: win_rate = 100 * (SELL trades whose price is above the price of   *)
(* the matching BUY) / (SELL trades); win_rate, avg_win_pct, avg_loss_pct  *)
(* are 0 when the SELL trades, the winning ones, the losing ones           *)
(* respectively are none; with capital 10,000,000, one BUY at 1000 and one *)
(* SELL at 1100 give win rate 100 and final value 10,000 * 1100 + 0.       *)
C11_WinRate ==
    (pc = "bt_done" /\ result # None) =>
        LET sells == {k \in 1..Len(trades) : trades[k].action = "SELL"}
            wins == {k \in sells : trades[k].price > trades[k - 1].price}
        IN  /\ \A k \in sells : trades[k - 1].action = "BUY"
            /\ sells # {} => result.win_rate = Pct(Cardinality(wins), Cardinality(sells))
            /\ sells = {} => result.win_rate = Pct(0, 1)
            /\ wins = {} => result.avg_win_pct = Pct(0, 1)
            /\ sells \ wins = {} => result.avg_loss_pct = Pct(0, 1)
            /\ (/\ initial_capital = 10000000 /\ Len(trades) = 2
                /\ trades[1].action = "BUY" /\ trades[1].price = 1000
                /\ trades[2].action = "SELL" /\ trades[2].price = 1100)
               => /\ result.win_rate.num = 100 * result.win_rate.den
                  /\ result.final_value = 10000 * 1100 + 0

(* the scenario: a returned result after one BUY at 1000 and one SELL at   *)
(* 1100 with the default capital                                           *)
C11_Witness ==
    /\ pc = "bt_done" /\ result # None
    /\ initial_capital = 10000000 /\ Len(trades) = 2
    /\ trades[1].price = 1000 /\ trades[2].action = "SELL" /\ trades[2].price = 1100
    /\ result.num_sells = 1

----------------------------------------------------------------------------
(* Properties of the scorers (specification SpecScore)                     *)

Scores(row) ==
    <<row.Score_MA5, row.Score_MA10, row.Score_RSI, row.Score_SuperTrend, row.Score_VolOsc>>

ScoredFrames ==
    (IF bt_df # NoFrame THEN {bt_df} ELSE {}) \cup (IF result_df # NoFrame THEN {result_df} ELSE {})

(* C4: in the output of both scorers every one of the five scores is in    *)
(* {-1, 0, 1} and Indicator is their sum, so within -5..5, also on rows    *)
(* with undefined indicators.                                              *)
C4_IndicatorIsSumOfScores ==
    \A f \in ScoredFrames : \A k \in 1..Len(f) :
        /\ \A j \in 1..5 : Scores(f[k])[j] \in {-1, 0, 1}
        /\ f[k].Indicator = f[k].Score_MA5 + f[k].Score_MA10 + f[k].Score_RSI
                            + f[k].Score_SuperTrend + f[k].Score_VolOsc
        /\ f[k].Indicator \in -5..5

(* both scorers have scored a frame whose last row has undefined indicators *)
C4_Witness ==
    /\ bt_df # NoFrame /\ result_df # NoFrame /\ Len(result_df) > 0
    /\ isna(bt_df[Len(bt_df)].MA_10) /\ isna(bt_df[Len(bt_df)].Vol_Osc)
    /\ bt_df[Len(bt_df)].Indicator = -1

(* C5 as stated: an undefined RSI, MA5, MA10 or trend direction scores 0   *)
(* in both scorers, and the two scorers give a bar the same five scores.   *)
C5_UndefinedIsNeutral ==
    /\ \A f \in ScoredFrames : \A k \in 1..Len(f) :
          /\ isna(f[k].RSI_Score) => f[k].Score_RSI = 0
          /\ isna(f[k].MA_5) => f[k].Score_MA5 = 0
          /\ isna(f[k].MA_10) => f[k].Score_MA10 = 0
    /\ bt_df # NoFrame => \A k \in 1..Len(bt_df) :
          (st_empty \/ isna(df[k].SuperTrend_Direction)) => bt_df[k].Score_SuperTrend = 0
    /\ result_df # NoFrame => \A k \in 1..Len(result_df) :
          (st_empty \/ isna(df[result_df[k].Date].SuperTrend_Direction))
              => result_df[k].Score_SuperTrend = 0
    /\ (bt_df # NoFrame /\ result_df # NoFrame) => \A k \in 1..Len(result_df) :
          Scores(result_df[k]) = Scores(bt_df[result_df[k].Date])

(* C6 as stated: every scored bar carries Indicator Diff = Indicator(t) -  *)
(* Indicator(t-1) (0 on the first bar), and the live monitor reports, for  *)
(* the latest daily bar, the latest Indicator minus the previous one.      *)
C6_IndicatorDiff ==
    (daily_signals # None /\ result_df # NoFrame /\ Len(result_df) > 0) =>
        LET n == Len(result_df)
            expected == IF n >= 2 THEN result_df[n].Indicator - result_df[n - 1].Indicator
                        ELSE 0
        IN  daily_signals.indicator_diff = expected

(* C12: on a bar with defined MA5, MA10 and oscillator the label is        *)
(* STRONG when the price is above both averages and osc >= 20, BEARISH     *)
(* INDICATOR when above both and osc <= -15, ACCUM when below both and     *)
(* osc >= 20, CONFIRM BEARISH when below both and osc <= -15, otherwise UP *)
(* if osc > 0 else DOWN (osc = 0 and every mixed case go by the sign       *)
(* alone); Score_VolOsc is +1 for STRONG/ACCUM/UP, -1 for BEARISH          *)
(* INDICATOR/CONFIRM BEARISH/DOWN, 0 for N/A; both scorers agree.          *)
C12_VolOscLabel ==
    /\ \A f \in ScoredFrames : \A k \in 1..Len(f) :
          LET r == f[k]
              osc == r.Vol_Osc
              above == r.Price > r.MA_5 /\ r.Price > r.MA_10
              below == r.Price < r.MA_5 /\ r.Price < r.MA_10
              lab == r.Vol_Osc_Result
          IN  /\ (~isna(r.MA_5) /\ ~isna(r.MA_10) /\ ~isna(osc)) =>
                    /\ (above /\ osc >= 20) => lab = "STRONG"
                    /\ (above /\ osc <= -15) => lab = "BEARISH INDICATOR"
                    /\ (below /\ osc >= 20) => lab = "ACCUM"
                    /\ (below /\ osc <= -15) => lab = "CONFIRM BEARISH"
                    /\ (~((above \/ below) /\ (osc >= 20 \/ osc <= -15))) =>
                          lab = (IF osc > 0 THEN "UP" ELSE "DOWN")
              /\ lab \in {"STRONG", "ACCUM", "UP"} => r.Score_VolOsc = 1
              /\ lab \in {"BEARISH INDICATOR", "CONFIRM BEARISH", "DOWN"} => r.Score_VolOsc = -1
              /\ lab = "N/A" => r.Score_VolOsc = 0
              /\ lab \in {"STRONG", "ACCUM", "UP", "BEARISH INDICATOR", "CONFIRM BEARISH",
                          "DOWN", "N/A"}
    /\ (bt_df # NoFrame /\ result_df # NoFrame) => \A k \in 1..Len(result_df) :
          /\ result_df[k].Vol_Osc_Result = bt_df[result_df[k].Date].Vol_Osc_Result
          /\ result_df[k].Score_VolOsc = bt_df[result_df[k].Date].Score_VolOsc

(* both scorers have labelled a bar above both averages whose oscillator   *)
(* is exactly 20                                                           *)
C12_Witness ==
    /\ bt_df # NoFrame /\ result_df # NoFrame /\ Len(result_df) > 0
    /\ LET r == result_df[Len(result_df)]
       IN  /\ r.Vol_Osc = 20 /\ r.Price > r.MA_5 /\ r.Price > r.MA_10
           /\ r.Vol_Osc_Result = "STRONG"
           /\ bt_df[r.Date].Score_VolOsc = 1

(* C13: on a bar whose 10-bar volume average is zero (volumes are never    *)
(* negative) the oscillator is undefined, not infinite, the label is N/A   *)
(* and Score_VolOsc is 0 in both scorers; no frame makes a scorer fail:    *)
(* get_stock_data returns a frame and the monitor reports no error.        *)
C13_ZeroVolumeAverage ==
    /\ bt_df # NoFrame => \A k \in 1..Len(bt_df) :
          /\ bt_df[k].Vol_Osc \notin {Inf, -Inf}
          /\ df[bt_df[k].date].vol_long = 0 =>
                /\ isna(bt_df[k].Vol_Osc)
                /\ bt_df[k].Vol_Osc_Result = "N/A"
                /\ bt_df[k].Score_VolOsc = 0
    /\ result_df # NoFrame => \A k \in 1..Len(result_df) :
          /\ result_df[k].Vol_Osc \notin {Inf, -Inf}
          /\ df[result_df[k].Date].vol_long = 0 =>
                /\ isna(result_df[k].Vol_Osc)
                /\ result_df[k].Vol_Osc_Result = "N/A"
                /\ result_df[k].Score_VolOsc = 0
    /\ (daily_signals # None /\ Len(df) > 0) =>
          /\ result_df # NoFrame
          /\ "error" \notin DOMAIN daily_signals

(* both scorers have scored eleven bars, the first traded and the last ten *)
(* without volume: the long average of the last bar is zero                *)
C13_Witness ==
    /\ bt_df # NoFrame /\ result_df # NoFrame /\ daily_signals # None
    /\ Len(df) = VolLong + 1
    /\ df[VolLong].vol_long = 100 /\ df[VolLong].vol_short = 0
    /\ df[VolLong + 1].vol_long = 0
    /\ bt_df[VolLong].Vol_Osc = -100
    /\ result_df[Len(result_df)].Vol_Osc_Result = "N/A"

RECURSIVE RunBars(_, _, _, _)
RunBars(s, valid, buy, sell) ==
    IF valid = <<>> THEN s
    ELSE RunBars(ProcessBar(s, Head(valid), buy, sell), Tail(valid), buy, sell)

FreshRun(frame, buy, sell, cap) ==
    LET valid == dropna(frame)
        fresh == [capital |-> cap, shares |-> 0, position |-> "CASH", buy_price |-> 0,
                  trades |-> <<>>]
    IN  IF TooShort(valid) THEN None
        ELSE Evaluate(RunBars(fresh, valid, buy, sell), valid, buy, sell, cap)

(* C15: every call of backtest_strategy in the grid starts from capital =  *)
(* initial_capital, shares = 0, position = CASH and an empty trade log,    *)
(* whatever the call before left; no step of the loops changes the         *)
(* caller's scored series; the result of a pair is the result of running   *)
(* that pair alone on the series, so it does not depend on the pairs run   *)
(* before it nor on their order.                                           *)
C15_RunsIndependent ==
    [][/\ (pc = "bt_start" /\ pc' = "bt_loop") =>
             /\ capital' = initial_capital /\ shares' = 0 /\ position' = "CASH"
             /\ buy_price' = 0 /\ trades' = <<>> /\ i' = 0
       /\ gpc \in {"grid_loop", "grid_call"} => df' = df
       /\ (gpc = "grid_call" /\ pc' = "bt_done") =>
             result' = FreshRun(df, buy_thresh, sell_thresh, DefaultCapital)
       /\ (gpc = "grid_call" /\ gpc' # "grid_call") =>
             results' \in {results, Append(results,
                               FreshRun(df, buy_thresh, sell_thresh, DefaultCapital))}
      ]_vars

(* a call starts with fresh locals right after a call that ended holding   *)
(* shares                                                                  *)
C15_Witness ==
    /\ gpc = "grid_call" /\ pc = "bt_loop" /\ i = 0
    /\ shares = 0 /\ position = "CASH" /\ trades = <<>> /\ capital = DefaultCapital
    /\ Len(results) >= 2
    /\ results[Len(results)].final_position = "HOLDING"
    /\ results[Len(results)].num_trades >= 3
    /\ result = results[Len(results)]

----------------------------------------------------------------------------
(* Properties of the batch driver (specification SpecMain)                 *)

(* C17: a ticker whose run_backtest_grid returns None (no data, or every   *)
(* pair rejected) is left out of all_results, a ticker with a ranking is   *)
(* stored, either way the loop goes on to the next ticker; main is never   *)
(* aborted, at the head of the loop either a ticker is left to call or the *)
(* summary is next, and the summary is reached only with every ticker      *)
(* processed.                                                              *)
C17_BatchContinues ==
    /\ [][(mpc = "main_call" /\ mpc' # "main_call") =>
             /\ mpc' = "main_loop"
             /\ ticker_idx' = ticker_idx + 1
             /\ grid_out = None => all_results' = all_results
             /\ grid_out # None =>
                   /\ DOMAIN all_results' = DOMAIN all_results \cup {tickers[ticker_idx + 1]}
                   /\ all_results'[tickers[ticker_idx + 1]] = grid_out.results_df
         ]_vars
    /\ [](mpc # "main_aborted")
    /\ [](mpc = "main_done" => ticker_idx = Len(tickers))
    /\ [](mpc = "main_loop" => ticker_idx \in 0..Len(tickers))
    /\ [](mpc = "main_call" => (gpc # "none" /\ ticker_idx < Len(tickers)))

(* the summary is reached after the first ticker had no data, the second   *)
(* had every pair rejected and the third was ranked                        *)
C17_Witness ==
    /\ mpc = "main_done"
    /\ DOMAIN all_results = {"BKSL.JK"}
    /\ Len(all_results["BKSL.JK"]) = 52
    /\ ticker_idx = 3

----------------------------------------------------------------------------
(* Properties on trending closes (specification SpecTrend)                 *)

IsRising40 == Len(df) = 40 /\ \A k \in 1..40 : df[k].Price = 99 + k

(* C14 as stated: on the 40 bars 100..139 with flat volume, after warm-up  *)
(* Score_MA5 = Score_MA10 = Score_SuperTrend = 1, Score_RSI = -1 once      *)
(* RSI > 75, Indicator of the late bars is within 1..5, and the backtest   *)
(* with buy_threshold = 2 records at least one BUY and no SELL.            *)
C14_RisingSeriesBuys ==
    IsRising40 =>
        /\ \A k \in 15..40 :
              /\ df[k].Score_MA5 = 1 /\ df[k].Score_MA10 = 1
              /\ df[k].Score_SuperTrend = 1
              /\ GT(df[k].RSI_Score, 75) => df[k].Score_RSI = -1
              /\ df[k].Indicator \in 1..5
        /\ (pc = "bt_done" /\ buy_threshold = 2) =>
              /\ result # None
              /\ \E k \in 1..Len(result.trades) : result.trades[k].action = "BUY"
              /\ \A k \in 1..Len(result.trades) : result.trades[k].action # "SELL"

(* C14 amended: on the rising closes the scores after warm-up are MA5 +1,  *)
(* MA10 +1, SuperTrend +1, RSI -1 (RSI = 100) and volume -1 (oscillator 0  *)
(* is DOWN), so Indicator is exactly 1; the 40-bar series leaves 26 valid  *)
(* rows and backtest_strategy returns None; on 44 bars or more             *)
(* buy_threshold = 2 records no trade, buy_threshold = 1 one BUY on the    *)
(* first valid bar and no SELL.                                            *)
C14_RisingSeriesIndicatorIsOne ==
    (\A k \in 1..Len(df) : df[k].Price = 99 + k) =>
        /\ \A k \in 15..Len(df) :
              /\ df[k].Score_MA5 = 1 /\ df[k].Score_MA10 = 1
              /\ df[k].Score_SuperTrend = 1
              /\ df[k].RSI_Score = 100 /\ df[k].Score_RSI = -1
              /\ df[k].Vol_Osc = 0 /\ df[k].Score_VolOsc = -1
              /\ df[k].Indicator = 1
        /\ ValidRows(df) = Len(df) - 14
        /\ pc = "bt_done" =>
              /\ Len(df) = 40 => result = None
              /\ (Len(df) >= 44 /\ buy_threshold = 2) =>
                    result # None /\ result.trades = <<>>
              /\ (Len(df) >= 44 /\ buy_threshold = 1) =>
                    /\ result # None /\ Len(result.trades) = 1
                    /\ result.trades[1].action = "BUY"
                    /\ result.trades[1].date = 15
                    /\ result.final_position = "HOLDING"

(* the backtest of the 40-bar rising series with buy_threshold = 2 has     *)
(* returned None on its 26 valid rows                                      *)
C14_Witness ==
    /\ IsRising40 /\ pc = "bt_done" /\ buy_threshold = 2
    /\ Len(rows) = 26 /\ result = None
    /\ df[40].Indicator = 1

----------------------------------------------------------------------------
(* Properties of the grid search (specification SpecGrid)                  *)

GridPairs == {<<b, s>> : b \in -2..5, s \in -5..4} \cap {p \in Int \X Int : p[2] < p[1]}

C9_InsufficientData ==
    /\ pc = "bt_done" => ((result = None) <=> (ValidRows(df) < 30))
    /\ gpc = "grid_done" =>
          /\ (grid_out = None) <=> (ValidRows(df) < 30)
          /\ grid_out # None => Len(grid_out.results_df) > 0

(* a grid run on a non-empty download in which every pair was rejected     *)
C9_Witness ==
    /\ gpc = "grid_done" /\ grid_out = None
    /\ Len(df) = 29 /\ buy_thresh = 5 /\ sell_thresh = 4

(***************************************************************************)
(* C18: accounting invariant of backtest_strategy, for positive prices and *)
(* non-negative initial capital.  After every bar of the loop capital is   *)
(* not negative, shares is a non-negative whole number, the position is    *)
(* HOLDING exactly when shares > 0, buy_price > 0 exactly when HOLDING,    *)
(* and while HOLDING the remaining cash is less than the buy price.        *)
(***************************************************************************)
C18_AccountingInvariant ==
    (pc \in {"bt_loop", "bt_done"} /\ i > 0) =>
        /\ capital >= 0
        /\ shares \in Nat
        /\ (position = "HOLDING") <=> (shares > 0)
        /\ (buy_price > 0) <=> (position = "HOLDING")
        /\ position = "HOLDING" => capital < buy_price

(* holding again after a completed round trip, with cash left over *)
C18_Witness ==
    /\ pc = "bt_loop"
    /\ position = "HOLDING"
    /\ shares > 0
    /\ capital > 0
    /\ \E k \in 1..Len(trades) : trades[k].action = "SELL"

(***************************************************************************)
(* C19: after any sequence of authenticated requests to /api/refresh and   *)
(* /api/set_interval/<interval> and of background updates, the global      *)
(* current_interval is one of the keys of INTERVALS, and a request that    *)
(* names an interval outside INTERVALS changes neither current_interval    *)
(* nor stock_data_cache in any of its steps.                               *)
(***************************************************************************)
C19_IntervalStaysValid ==
    /\ [](current_interval \in INTERVALS)
    /\ [][\A t \in RequestThreads :
             (/\ threads'[t] # threads[t]
              /\ threads[t].op \in {"refresh_data", "set_interval"}
              /\ threads[t].interval \notin INTERVALS)
             => UNCHANGED <<current_interval, stock_data_cache>>
         ]_vars

(***************************************************************************)
(* C20: in every interleaving of fetch_all_stocks (run by the updater or   *)
(* by a refresh) with add_stock and remove_stock requests, every key of    *)
(* stock_data_cache is a ticker that is in TICKERS, or one that a          *)
(* remove_stock has just taken out of TICKERS and is about to delete; and  *)
(* TICKERS is never empty.                                                 *)
(***************************************************************************)
C20_CacheKeysAreTickers ==
    /\ \A key \in DOMAIN stock_data_cache :
          \/ key \in Elements(TICKERS)
          \/ \E t \in RequestThreads :
                threads[t].at = "remove_cache" /\ threads[t].ticker = key
    /\ TICKERS # <<>>

====
